---- MODULE Spec2Model ----
(***************************************************************************)
(* Model of architecture/autodiff/autodiff.cpp: the mldsp gradient-descent *)
(* driver.  The external Faust runtime (the composed DSP, MapUI, the dummy *)
(* audio driver) appears only through the calls the driver makes: it       *)
(* renders a block of frames, exposes parameter zones and accepts          *)
(* setParamValue pushes.                                                   *)
(*                                                                         *)
(* Numbers.  FAUSTFLOAT values are modelled by integers and the arithmetic *)
(* is exact.  Read as fixed point, channel values and the learning rate    *)
(* are in tenths, losses and gradients of the L2 run in hundredths and     *)
(* parameter values in thousandths, so that observed 1.0, target 0.5,      *)
(* derivative 1.0, alpha 0.1 and value 0.3 are 10, 5, 10, 1 and 300.       *)
(***************************************************************************)
EXTENDS Integers, Sequences, FiniteSets, TLC

(***************************************************************************)
(* Bounds of the model.                                                    *)
(***************************************************************************)
MaxFrames == 22
MaxBufferSize == 2
MaxParams == 2
MaxDrift == 1

(***************************************************************************)
(* Program constants.                                                      *)
(***************************************************************************)
Patience == 20
GROUND_TRUTH == 0
LEARNABLE == 1
DIFFERENTIATED == 2

(***************************************************************************)
(* Input domains.                                                          *)
(***************************************************************************)
LossFunctions == {"L1_NORM", "L2_NORM"}
Alphas == {0, 1}
Epsilons == {-1, 0, 25}
InitialValues == {300}
\* derivative channel values: the differentiated DSP of n parameters emits n
\* consecutive values of this cycle
DerivCycle == <<10, 0, -10>>
\* (ground truth, learnable) sample pairs a frame may carry: delta 0, +5, -5
SamplePairs == {<<5, 5>>, <<5, 10>>, <<10, 5>>}
\* the transform of the composed DSP a UI parameter belongs to
Owners == {"input", "groundtruth", "adjustable"}
\* what a read past the last derivative channel may find
StrayValues == {0, 10}
\* parameter paths as MapUI enumerates them, one per index
UIPaths == << <<"Parallelizer", "DSP2", "cutoff">>,
              <<"Parallelizer", "DSP2", "gain">>,
              <<"Parallelizer", "DSP2", "mix">>,
              <<"Parallelizer", "DSP2", "q">> >>

VARIABLES
    pc,               \* "main", "exit", "start", "descend", "render", "frame",
                      \* "converged", "exhausted"
    optHelp, optInput, optGt, optDiff,  \* isopt(argv, ...) of the four options
    exitCode,         \* the status passed to exit(), -1 while none was
    printed,          \* what main wrote to std::cout: "none", "help", "missing"
    kLossFunction, kAlpha, kEpsilon, kNumIterations,
    fBufferSize,      \* fAudio->getBufferSize()
    uiCount,          \* fUI->getParamsCount()
    uiOwner,          \* the transform each UI parameter belongs to (index order)
    uiZone,           \* the value each UI parameter zone holds (index order)
    dspDeriv,         \* what the differentiated DSP emits on each derivative channel
    fLearnableParams, \* the registry, in iteration order
    fLoss,
    lowLossCount,
    i,                \* iteration counter of the outer loop
    frame,            \* frame counter of the inner loop
    out,              \* the rendered block: out[frame + 1][channel + 1]
    csvHeader,        \* the header line of loss.csv, as a sequence of columns
    csvRows,          \* number of data rows written to loss.csv
    csvLastRow,       \* the last data row written, as a sequence of fields
    \* history variables
    initZone,         \* uiZone as it was when initialise read it
    renderZone,       \* uiZone as it was at the last render
    rendered,         \* number of render calls made
    processed,        \* number of frames processed
    allLow,           \* every processed frame had fLoss <= kEpsilon
    lastHighAt,       \* number of the last processed frame with fLoss > kEpsilon, or 0
    extracted,        \* computeGradient was called for the last processed frame
    gradIdx,          \* channel indices computeGradient read, in registry order
    reportIdx,        \* channel indices reportState read for ds/dp, in registry order
    pushed            \* UI indices setParamValue was called for in the last frame

argv == <<optHelp, optInput, optGt, optDiff>>
config == <<kLossFunction, kAlpha, kEpsilon, kNumIterations, fBufferSize,
            uiCount, uiOwner, dspDeriv, initZone>>
csv == <<csvHeader, csvRows, csvLastRow>>
hist == <<renderZone, rendered, processed, allLow, lastHighAt, extracted, gradIdx,
         reportIdx, pushed>>
vars == <<pc, argv, exitCode, printed, config, uiZone, fLearnableParams, fLoss, lowLossCount, i, frame,
          out, csv, hist>>

Abs(x) == IF x < 0 THEN -x ELSE x

\* fUI->getParamAddress(p), p counted from 0
getParamAddress(p) == UIPaths[p + 1]

\* p.first.substr(p.first.find_last_of("/") + 1)
Label(address) == address[Len(address)]

\* output[channel][frame]
Output(o, channel, f) == o[f + 1][channel + 1]

\* the blocks the audio driver may deliver: fBufferSize frames, each with the
\* ground truth, the learnable output and one derivative per parameter
\* (a registry entry beyond the derivative channels makes computeGradient read
\* past them: stray further values stand for what such a read finds)
Frames(deriv, stray) ==
    {pair \o deriv \o s : pair \in SamplePairs, s \in [1..stray -> StrayValues]}
Blocks(size, deriv, stray) == [1..size -> Frames(deriv, stray)]
\* the UI parameters the adjustable transform contributes
Adjustable(owner) == {p \in 1..Len(owner) : owner[p] = "adjustable"}
\* the iteration budgets tried with a buffer size: at most MaxFrames frames in all
Iterations(size) == {1, 2, MaxFrames \div size}
Derivs(n) == {[k \in 1..n |-> DerivCycle[((k + n) % Len(DerivCycle)) + 1]]}

\* auto delta{output[LEARNABLE][frame] - output[GROUND_TRUTH][frame]}
Delta(o, f) == Output(o, LEARNABLE, f) - Output(o, GROUND_TRUTH, f)

\* variant: the L1 loss without fabsf
computeLossSigned(lf, o, f) ==
    IF lf = "L1_NORM" THEN Delta(o, f) ELSE Delta(o, f) * Delta(o, f)

\* computeLoss: fabsf(delta) or powf(delta, 2)
computeLoss(lf, o, f) ==
    IF lf = "L1_NORM" THEN Abs(Delta(o, f)) ELSE Delta(o, f) * Delta(o, f)

\* variant: the channel index is never advanced
DiffChannelStuck(k) == DIFFERENTIATED

\* the channel computeGradient and reportState read for registry position k (from 0)
DiffChannel(k) == DIFFERENTIATED + k

\* variant: the L2 gradient without the factor 2
GradientHalved(lf, o, f, k) ==
    LET delta == Delta(o, f)
        d == Output(o, DiffChannel(k), f)
    IN  IF lf = "L1_NORM"
        THEN IF delta = 0 THEN 0 ELSE (d * delta) \div Abs(delta)
        ELSE d * delta

\* variant: the L1 gradient without the sign of delta
GradientUnsigned(lf, o, f, k) ==
    LET delta == Delta(o, f)
        d == Output(o, DiffChannel(k), f)
    IN  IF lf = "L1_NORM"
        THEN IF delta = 0 THEN 0 ELSE d
        ELSE 2 * d * delta

\* the gradient computeGradient stores for registry position k (from 0)
Gradient(lf, o, f, k) ==
    LET delta == Delta(o, f)
        d == Output(o, DiffChannel(k), f)
    IN  IF lf = "L1_NORM"
        THEN IF delta = 0 THEN 0 ELSE (d * delta) \div Abs(delta)
        ELSE 2 * d * delta

\* computeGradient: one pass over the registry, k counted from 0
computeGradient(lf, params, o, f) ==
    [k \in 1..Len(params) |-> [params[k] EXCEPT !.gradient = Gradient(lf, o, f, k - 1)]]

\* variant: the step ignores the learning rate
DescendUnscaled(alpha, value, gradient) == value - gradient

\* p.second.value -= kAlpha * p.second.gradient
Descend(alpha, value, gradient) == value - alpha * gradient

\* the update loop of doGradientDescent over the registry
UpdateParams(alpha, params) ==
    [k \in 1..Len(params) |->
        [params[k] EXCEPT !.value = Descend(alpha, params[k].value, params[k].gradient)]]

\* variant: the updated values are never pushed
PushParamsForgotten(zone, params) == zone

\* fUI->setParamValue(p.first, p.second.value) for every registry entry; the
\* zone written is the one whose path is the entry's address
PushParams(zone, params) ==
    [z \in 1..Len(zone) |->
        IF \E k \in 1..Len(params) : params[k].address = getParamAddress(z - 1)
        THEN LET k == CHOOSE k \in 1..Len(params) :
                          params[k].address = getParamAddress(z - 1)
             IN  params[k].value
        ELSE zone[z]]

PushedZones(params) ==
    {z \in 1..Len(UIPaths) : \E k \in 1..Len(params) :
                                params[k].address = getParamAddress(z - 1)}

\* the ",gradient,value" pairs either branch of reportState appends
RECURSIVE ParamFields(_)
ParamFields(params) ==
    IF params = <<>> THEN <<>>
    ELSE <<Head(params).gradient, Head(params).value>> \o ParamFields(Tail(params))

\* variant: the iteration column counts from 0
reportStateZeroBased(iteration, loss, epsilon, params) ==
    IF loss > epsilon
    THEN << <<iteration - 1, loss>> \o ParamFields(params) >>
    ELSE << <<iteration - 1, loss>> \o ParamFields(params) >>

\* variant: no row for a frame at or below the threshold
reportStateAboveOnly(iteration, loss, epsilon, params) ==
    IF loss > epsilon
    THEN << <<iteration, loss>> \o ParamFields(params) >>
    ELSE <<>>

\* variant: the row of a frame at or below the threshold carries no pairs
reportStateBare(iteration, loss, epsilon, params) ==
    IF loss > epsilon
    THEN << <<iteration, loss>> \o ParamFields(params) >>
    ELSE << <<iteration, loss>> >>

\* reportState: the data rows it appends to loss.csv (one row, whose pairs are
\* written by the loop of the branch taken)
reportState(iteration, loss, epsilon, params) ==
    IF loss > epsilon
    THEN << <<iteration, loss>> \o ParamFields(params) >>
    ELSE << <<iteration, loss>> \o ParamFields(params) >>

\* the channels reportState reads for the ds/dp column (above-threshold branch only)
reportChannels(loss, epsilon, params) ==
    IF loss > epsilon THEN [k \in 1..Len(params) |-> DiffChannel(k - 1)] ELSE <<>>

\* variant: the values are updated before the gradients are extracted
FrameParamsUpdateFirst(lf, alpha, epsilon, loss, params, o, f) ==
    IF loss > epsilon
    THEN computeGradient(lf, UpdateParams(alpha, params), o, f)
    ELSE params

\* variant: gradients are extracted on every frame
FrameParamsEager(lf, alpha, epsilon, loss, params, o, f) ==
    IF loss > epsilon
    THEN UpdateParams(alpha, computeGradient(lf, params, o, f))
    ELSE computeGradient(lf, params, o, f)

\* the registry after lines 127-138: gradients extracted and values updated
\* when the loss exceeds the threshold, nothing touched otherwise
FrameParams(lf, alpha, epsilon, loss, params, o, f) ==
    IF loss > epsilon
    THEN UpdateParams(alpha, computeGradient(lf, params, o, f))
    ELSE params

\* the ",gradient_<label>,<label>" columns initialise appends
RECURSIVE HeaderFields(_)
HeaderFields(params) ==
    IF params = <<>> THEN <<>>
    ELSE <<"gradient_" \o Label(Head(params).address), Label(Head(params).address)>>
            \o HeaderFields(Tail(params))

\* variant: the return is taken one frame late
ConvergedLate(count) == count > Patience + 1

\* variant: the return is taken one frame early
ConvergedAtPatience(count) == count >= Patience

\* if (lowLossCount > 20) return
Converged(count) == count > Patience

\* variant: the convergence test is made once per block, after its last frame
PcAfterFrameBlockwise(count, f, iter) ==
    IF f + 1 < fBufferSize THEN "frame"
    ELSE IF Converged(count) THEN "converged"
    ELSE IF iter + 1 <= kNumIterations THEN "render"
    ELSE "exhausted"

\* variant: the outer loop runs one iteration too many
PcAfterFrameOverrun(count, f, iter) ==
    IF Converged(count) THEN "converged"
    ELSE IF f + 1 < fBufferSize THEN "frame"
    ELSE IF iter + 1 <= kNumIterations + 1 THEN "render"
    ELSE "exhausted"

\* where control goes after a frame: the return, the next frame, the next
\* iteration, or the end of the outer loop
PcAfterFrame(count, f, iter) ==
    IF Converged(count) THEN "converged"
    ELSE IF f + 1 < fBufferSize THEN "frame"
    ELSE IF iter + 1 <= kNumIterations THEN "render"
    ELSE "exhausted"

\* the members and counters as the constructor leaves them
Fresh ==
    /\ initZone = uiZone
    /\ renderZone = uiZone
    /\ fLearnableParams = <<>>
    /\ fLoss = 0
    /\ lowLossCount = 0
    /\ i = 0
    /\ frame = 0
    /\ out = <<>>
    /\ csvHeader = <<>>
    /\ csvRows = 0
    /\ csvLastRow = <<>>
    /\ rendered = 0
    /\ processed = 0
    /\ allLow = TRUE
    /\ lastHighAt = 0
    /\ extracted = FALSE
    /\ gradIdx = <<>>
    /\ reportIdx = <<>>
    /\ pushed = {}

\* the state after construction, main having found all three files and no
\* --help; every UI parameter belongs to the adjustable transform
Init ==
    /\ pc = "start"
    /\ optHelp = FALSE /\ optInput = TRUE /\ optGt = TRUE /\ optDiff = TRUE
    /\ exitCode = -1
    /\ printed = "none"
    /\ kLossFunction \in LossFunctions
    /\ kAlpha \in Alphas
    /\ kEpsilon \in Epsilons
    /\ fBufferSize \in 1..MaxBufferSize
    /\ kNumIterations \in Iterations(fBufferSize)
    /\ uiCount \in 0..MaxParams
    /\ uiOwner = [p \in 1..uiCount |-> "adjustable"]
    /\ uiZone \in [1..uiCount -> InitialValues]
    /\ dspDeriv \in Derivs(uiCount)
    /\ Fresh

\* mldsp::initialise: fill the registry from the UI and write the csv header
Initialise ==
    /\ pc = "start"
    /\ fLearnableParams' =
          [p \in 1..uiCount |->
              [address |-> getParamAddress(p - 1), value |-> uiZone[p], gradient |-> 0]]
    /\ csvHeader' = <<"iteration", "loss">> \o HeaderFields(fLearnableParams')
    /\ pc' = "descend"
    /\ UNCHANGED <<argv, exitCode, printed, config, uiZone, fLoss, lowLossCount, i,
                   frame, out, csvRows, csvLastRow, hist>>

\* entry of mldsp::doGradientDescent: lowLossCount{0}, i{1}, the first loop test
Descent ==
    /\ pc = "descend"
    /\ lowLossCount' = 0
    /\ i' = 1
    /\ pc' = IF 1 <= kNumIterations THEN "render" ELSE "exhausted"
    /\ UNCHANGED <<argv, exitCode, printed, config, uiZone, fLearnableParams, fLoss,
                   frame, out, csv, hist>>

\* variant: the low-loss counter is declared inside the outer loop
RenderResetting ==
    /\ pc = "render"
    /\ out' \in Blocks(fBufferSize, dspDeriv, uiCount - Len(dspDeriv))
    /\ renderZone' = uiZone
    /\ rendered' = rendered + 1
    /\ frame' = 0
    /\ pc' = "frame"
    /\ lowLossCount' = 0
    /\ UNCHANGED <<argv, exitCode, printed, config, uiZone, fLearnableParams, fLoss,
                   i, csv, processed, allLow, lastHighAt, extracted,
                   gradIdx, reportIdx, pushed>>

\* fAudio->render(); out = fAudio->getOutput(); frame = 0
Render ==
    /\ pc = "render"
    /\ out' \in Blocks(fBufferSize, dspDeriv, uiCount - Len(dspDeriv))
    /\ renderZone' = uiZone
    /\ rendered' = rendered + 1
    /\ frame' = 0
    /\ pc' = "frame"
    /\ UNCHANGED <<argv, exitCode, printed, config, uiZone, fLearnableParams, fLoss,
                   lowLossCount, i, csv, processed, allLow, lastHighAt, extracted,
                   gradIdx, reportIdx, pushed>>

\* the body of the inner loop for one frame, up to the next loop test
FrameBody ==
    /\ pc = "frame"
    /\ LET loss == computeLoss(kLossFunction, out, frame)
           high == loss > kEpsilon
           params == FrameParams(kLossFunction, kAlpha, kEpsilon, loss,
                                 fLearnableParams, out, frame)
           count == IF high THEN 0 ELSE lowLossCount + 1
           report == reportState(i, loss, kEpsilon, params)
           next == PcAfterFrame(count, frame, i)
       IN  /\ \A k \in 1..Len(params) :
                 Abs(params[k].value - initZone[k]) <= MaxDrift * 100
           /\ fLoss' = loss
           /\ lowLossCount' = count
           /\ fLearnableParams' = params
           /\ uiZone' = IF high THEN PushParams(uiZone, params) ELSE uiZone
           /\ csvRows' = csvRows + Len(report)
           /\ csvLastRow' = IF report = <<>> THEN csvLastRow ELSE report[Len(report)]
           /\ pc' = next
           /\ frame' = IF next = "frame" THEN frame + 1 ELSE frame
           /\ i' = IF next = "render" THEN i + 1 ELSE i
           /\ processed' = processed + 1
           /\ allLow' = (allLow /\ ~high)
           /\ lastHighAt' = IF high THEN processed + 1 ELSE lastHighAt
           /\ extracted' = high
           /\ gradIdx' = IF high
                         THEN [k \in 1..Len(fLearnableParams) |-> DiffChannel(k - 1)]
                         ELSE <<>>
           /\ reportIdx' = reportChannels(loss, kEpsilon, params)
           /\ pushed' = IF high THEN PushedZones(params) ELSE {}
    /\ UNCHANGED <<argv, exitCode, printed, config, csvHeader, rendered>>

\* variant: the block is rendered again after every frame
ProcessFrameRerender ==
    /\ FrameBody
    /\ out' \in Blocks(fBufferSize, dspDeriv, uiCount - Len(dspDeriv))
    /\ renderZone' = uiZone'

\* one frame of doGradientDescent: the block and what the DSP read stay as rendered
ProcessFrame ==
    /\ FrameBody
    /\ UNCHANGED <<out, renderZone>>

Next == Initialise \/ Descent \/ Render \/ ProcessFrame

Spec == Init /\ [][Next]_vars

(***************************************************************************)
(* The composed DSP as buildUserInterface sees it: parameters of the input *)
(* and ground-truth transforms are enumerated with the adjustable ones,    *)
(* and the differentiated DSP has one output per adjustable parameter.     *)
(***************************************************************************)
ShortBudgets == {1, 2}

InitUI ==
    /\ pc = "start"
    /\ optHelp = FALSE /\ optInput = TRUE /\ optGt = TRUE /\ optDiff = TRUE
    /\ exitCode = -1
    /\ printed = "none"
    /\ kLossFunction \in LossFunctions
    /\ kAlpha \in Alphas
    /\ kEpsilon = 0
    /\ fBufferSize \in 1..MaxBufferSize
    /\ kNumIterations \in ShortBudgets
    /\ uiCount \in 0..MaxParams
    /\ uiOwner \in [1..uiCount -> Owners]
    /\ uiZone \in [1..uiCount -> InitialValues]
    /\ dspDeriv \in Derivs(Cardinality(Adjustable(uiOwner)))
    /\ Fresh

SpecUI == InitUI /\ [][Next]_vars

(***************************************************************************)
(* main, from the command line on.                                         *)
(***************************************************************************)
\* the value of -lf|--lossfunction, "" when the option is absent
LossTokens == {"", "l1", "l2", "huber"}

\* lines 26-32: L2_NORM unless the token is "l1"
ParseLossFunction(token) ==
    IF token = "l1" THEN "L1_NORM"
    ELSE IF token = "l2" THEN "L2_NORM"
    ELSE "L2_NORM"

\* variant: the run is refused only when all three files are missing
MainOutcomeLenient(help, input, gt, diff) ==
    IF help THEN "help"
    ELSE IF ~input /\ ~gt /\ ~diff THEN "missing"
    ELSE "run"

\* the two tests at the head of main
MainOutcome(help, input, gt, diff) ==
    IF help THEN "help"
    ELSE IF ~input \/ ~gt \/ ~diff THEN "missing"
    ELSE "run"

InitMain ==
    /\ pc = "main"
    /\ optHelp \in BOOLEAN /\ optInput \in BOOLEAN
    /\ optGt \in BOOLEAN /\ optDiff \in BOOLEAN
    /\ exitCode = -1
    /\ printed = "none"
    /\ kLossFunction = "L2_NORM"
    /\ kAlpha = 0
    /\ kEpsilon = 0
    /\ fBufferSize = 0
    /\ kNumIterations = 0
    /\ uiCount = 0
    /\ uiOwner = <<>>
    /\ uiZone = <<>>
    /\ dspDeriv = <<>>
    /\ Fresh

\* main up to the construction of the mldsp object, or to exit()
Main ==
    /\ pc = "main"
    /\ LET outcome == MainOutcome(optHelp, optInput, optGt, optDiff)
       IN  \/ /\ outcome = "help"
              /\ printed' = "help"
              /\ exitCode' = 0
              /\ pc' = "exit"
              /\ UNCHANGED <<config, uiZone, renderZone>>
           \/ /\ outcome = "missing"
              /\ printed' = "missing"
              /\ exitCode' = 1
              /\ pc' = "exit"
              /\ UNCHANGED <<config, uiZone, renderZone>>
           \/ /\ outcome = "run"
              /\ \E token \in LossTokens : kLossFunction' = ParseLossFunction(token)
              /\ kAlpha' \in Alphas
              /\ kEpsilon' \in Epsilons
              /\ fBufferSize' \in 1..MaxBufferSize
              /\ kNumIterations' \in Iterations(fBufferSize')
              /\ uiCount' \in 0..MaxParams
              /\ uiOwner' = [p \in 1..uiCount' |-> "adjustable"]
              /\ uiZone' \in [1..uiCount' -> InitialValues]
              /\ dspDeriv' \in Derivs(uiCount')
              /\ initZone' = uiZone'
              /\ renderZone' = uiZone'
              /\ pc' = "start"
              /\ UNCHANGED <<exitCode, printed>>
    /\ UNCHANGED <<argv, fLearnableParams, fLoss, lowLossCount, i, frame, out, csv,
                   rendered, processed, allLow, lastHighAt, extracted, gradIdx,
                   reportIdx, pushed>>

NextMain == Main \/ Next

SpecMain == InitMain /\ [][NextMain]_vars

TypeOK ==
    /\ pc \in {"main", "exit", "start", "descend", "render", "frame", "converged",
              "exhausted"}
    /\ lowLossCount \in 0..(Patience + 1)
    /\ csvRows \in Nat

(***************************************************************************)
(* Properties.                                                             *)
(***************************************************************************)
NumParams == Len(fLearnableParams)
Untouched ==
    /\ \A k \in 1..NumParams : fLearnableParams[k].value = initZone[k]
    /\ uiZone = initZone
\* frames the iteration budget allows
Budget == kNumIterations * fBufferSize
\* blocks needed to hold n frames
BlocksFor(n) == (n + fBufferSize - 1) \div fBufferSize

\* C1: when the first Patience + 1 processed frames all have loss <= epsilon,
\* the loop is CONVERGED after exactly Patience + 1 frames and as many report
\* rows, it has rendered only the blocks holding those frames, and no
\* parameter value has changed, in the registry or in the external transform.
C1_FirstFramesQuiet ==
    /\ allLow => Untouched
    /\ (allLow /\ pc = "converged") => processed = Patience + 1
    /\ (allLow /\ processed >= Patience + 1) =>
          /\ pc = "converged"
          /\ processed = Patience + 1
          /\ csvRows = Patience + 1
          /\ rendered = BlocksFor(Patience + 1)
          /\ rendered = i

C1_Witness ==
    /\ pc = "converged" /\ allLow /\ processed = Patience + 1
    /\ fBufferSize = 1 /\ Budget > Patience + 1
    /\ kAlpha = 1 /\ kEpsilon = 25 /\ NumParams = 2
    /\ Delta(out, frame) # 0

\* C2: as soon as the count of consecutive frames with loss <= epsilon exceeds
\* Patience the loop has returned: the count is exactly Patience + 1, the last
\* report row is that frame's, the frame and iteration counters stand where
\* the return was taken, and nothing changes afterwards.
C2_HardExit ==
    /\ [](/\ lowLossCount > Patience => pc = "converged"
          /\ pc = "converged" =>
                /\ lowLossCount = Patience + 1
                /\ csvRows = processed
                /\ csvLastRow[1] = i
                /\ csvLastRow[2] = computeLoss(kLossFunction, out, frame)
                /\ rendered = i
                /\ processed = (i - 1) * fBufferSize + frame + 1)
    /\ [][pc = "converged" => UNCHANGED vars]_vars

\* the return is taken on the first frame of a two-frame block, at the end of
\* a run of quiet frames that began blocks earlier
C2_Witness ==
    /\ pc = "converged" /\ fBufferSize = 2 /\ frame + 1 < fBufferSize
    /\ rendered > 1 /\ i <= kNumIterations
    /\ processed < Budget

\* C3: while a block is processed its channel values and the parameter values
\* the transform read for it stay as rendered, whatever updates are pushed;
\* frames are taken in increasing index; a render reads the zones as the
\* earlier blocks left them, and a block is entered only by rendering it.
C3_BlockStaleness ==
    [][/\ pc = "frame" =>
            /\ out' = out
            /\ renderZone' = renderZone
            /\ pc' = "frame" => frame' = frame + 1
       /\ pc = "render" =>
            /\ pc' = "frame" /\ frame' = 0
            /\ renderZone' = uiZone /\ uiZone' = uiZone
       /\ (pc # "frame" /\ pc' = "frame") => pc = "render"]_vars

C3_Witness ==
    /\ pc = "frame" /\ frame > 0
    /\ uiZone # renderZone
    /\ pushed # {}

\* C4: with the L2 loss, a frame whose loss exceeds epsilon leaves for every
\* registered parameter k the gradient 2 * d_k * delta and the value
\* value_old - alpha * gradient, and that value is in the transform's zone.
C4_L2Update ==
    [][(/\ pc = "frame" /\ processed' = processed + 1
        /\ kLossFunction = "L2_NORM"
        /\ Delta(out, frame) * Delta(out, frame) > kEpsilon) =>
          \A k \in 1..NumParams :
             LET g == 2 * Output(out, 2 + (k - 1), frame) * Delta(out, frame)
             IN  /\ fLearnableParams'[k].gradient = g
                 /\ fLearnableParams'[k].value = fLearnableParams[k].value - kAlpha * g
                 /\ uiZone'[k] = fLearnableParams'[k].value
                 /\ k \in pushed']_vars

\* observed 1.0, target 0.5, d_0 = 1.0, alpha 0.1, value 0.3: gradient 1.0, value 0.2
C4_Witness ==
    /\ kLossFunction = "L2_NORM" /\ kAlpha = 1 /\ processed = 1
    /\ pc = "frame" /\ frame = 1 /\ NumParams = 2
    /\ Output(out, LEARNABLE, 0) = 10 /\ Output(out, GROUND_TRUTH, 0) = 5
    /\ Output(out, 2, 0) = 10
    /\ initZone[1] = 300
    /\ fLoss = 25
    /\ fLearnableParams[1].gradient = 100
    /\ fLearnableParams[1].value = 200
    /\ uiZone[1] = 200

\* C5: with the L1 loss, whenever computeGradient runs, every registered
\* parameter k gets gradient 0 if delta = 0, d_k if delta > 0 and -d_k if
\* delta < 0.
C5_L1Gradient ==
    [][(/\ pc = "frame" /\ processed' = processed + 1
        /\ kLossFunction = "L1_NORM"
        /\ extracted') =>
          \A k \in 1..NumParams :
             LET d == Output(out, 2 + (k - 1), frame)
                 delta == Output(out, 1, frame) - Output(out, 0, frame)
             IN  /\ delta = 0 => fLearnableParams'[k].gradient = 0
                 /\ delta > 0 => fLearnableParams'[k].gradient = d
                 /\ delta < 0 => fLearnableParams'[k].gradient = -d]_vars

C5_Witness ==
    /\ kLossFunction = "L1_NORM" /\ kEpsilon < 0 /\ extracted
    /\ pc = "frame" /\ frame = 1 /\ NumParams = 2
    /\ Delta(out, 0) = 0
    /\ Output(out, 2, 0) # 0
    /\ \A k \in 1..NumParams : fLearnableParams[k].gradient = 0
    /\ processed > 1

\* C6: with alpha = 0 every registered parameter keeps its initial value, in
\* the registry and in the external transform, whatever was processed.
C6_ZeroRate == kAlpha = 0 => Untouched

C6_Witness ==
    /\ kAlpha = 0 /\ processed > 2 /\ extracted
    /\ \E k \in 1..NumParams : fLearnableParams[k].gradient # 0
    /\ pushed # {}

\* C7: the k-th registry entry (from 0) is the k-th parameter the UI
\* enumerated, and computeGradient and reportState read its derivative from
\* channel 2 + k, a channel of the frame that lies in [2, 2 + N).
C7_ChannelIndex ==
    /\ pc # "start" =>
          \A k \in 1..NumParams : fLearnableParams[k].address = UIPaths[k]
    /\ extracted =>
          /\ Len(gradIdx) = NumParams /\ Len(reportIdx) = NumParams
          /\ \A k \in 1..NumParams :
                /\ gradIdx[k] = 2 + (k - 1)
                /\ reportIdx[k] = 2 + (k - 1)
                /\ gradIdx[k] >= 2 /\ gradIdx[k] < 2 + NumParams
                /\ gradIdx[k] + 1 <= Len(out[1])
    /\ ~extracted => gradIdx = <<>> /\ reportIdx = <<>>

C7_Witness ==
    /\ extracted /\ NumParams = 2
    /\ gradIdx = <<2, 3>>
    /\ fLearnableParams[1].gradient # fLearnableParams[2].gradient

\* C8: the number of data rows of loss.csv equals the number of frames
\* processed so far and never exceeds iterations * blockSize.
C8_RowPerFrame ==
    /\ csvRows = processed
    /\ csvRows <= kNumIterations * fBufferSize

C8_Witness ==
    /\ pc = "converged" /\ ~allLow /\ csvRows = processed
    /\ csvRows = Patience + 2

\* the column names expected for the UI's parameters, in index order
ExpectedLabels == <<"cutoff", "gain", "mix", "q">>
ExpectedGradientLabels ==
    <<"gradient_cutoff", "gradient_gain", "gradient_mix", "gradient_q">>

\* C9: the header has 2 + 2N columns, iteration, loss, then gradient_<label>,
\* <label> per parameter in registry order, and every data row has as many
\* fields, with each parameter's (gradient, value) pair under its columns.
C9_Columns ==
    /\ pc # "start" =>
          /\ Len(csvHeader) = 2 + 2 * uiCount
          /\ NumParams = uiCount
          /\ csvHeader[1] = "iteration" /\ csvHeader[2] = "loss"
          /\ \A k \in 1..NumParams :
                /\ csvHeader[2 * k + 1] = ExpectedGradientLabels[k]
                /\ csvHeader[2 * k + 2] = ExpectedLabels[k]
                /\ fLearnableParams[k].address[3] = ExpectedLabels[k]
    /\ csvRows > 0 =>
          /\ Len(csvLastRow) = 2 + 2 * NumParams
          /\ Len(csvLastRow) = Len(csvHeader)
          /\ csvLastRow[2] = fLoss
          /\ \A k \in 1..NumParams :
                /\ csvLastRow[2 * k + 1] = fLearnableParams[k].gradient
                /\ csvLastRow[2 * k + 2] = fLearnableParams[k].value

C9_Witness ==
    /\ csvRows > 1 /\ NumParams = 2 /\ ~extracted
    /\ Len(csvLastRow) = 6 /\ Len(csvHeader) = 6
    /\ csvLastRow[3] # csvLastRow[5]
    /\ csvLastRow[4] # csvLastRow[6]

\* C10: a frame with loss <= epsilon calls no computeGradient and no
\* setParamValue and leaves the registry and the transform's zones as they
\* were (initial value and gradient 0 if no frame was above the threshold);
\* only the loss, the stable-frame count and the loop position change, and
\* the frame's row carries the registry's unchanged pairs.
C10_QuietFrame ==
    /\ [](allLow => \A k \in 1..NumParams :
                       /\ fLearnableParams[k].gradient = 0
                       /\ fLearnableParams[k].value = initZone[k])
    /\ [][(/\ pc = "frame" /\ processed' = processed + 1
           /\ computeLoss(kLossFunction, out, frame) <= kEpsilon) =>
             /\ fLearnableParams' = fLearnableParams
             /\ uiZone' = uiZone
             /\ ~extracted' /\ pushed' = {} /\ gradIdx' = <<>>
             /\ lowLossCount' = lowLossCount + 1
             /\ fLoss' = computeLoss(kLossFunction, out, frame)
             /\ csvLastRow' = <<i, fLoss'>> \o ParamFields(fLearnableParams)
             /\ UNCHANGED <<out, csvHeader, config>>]_vars

C10_Witness ==
    /\ ~extracted /\ ~allLow /\ processed > 1
    /\ kEpsilon = 0 /\ kAlpha = 1
    /\ \E k \in 1..NumParams :
          /\ fLearnableParams[k].gradient # 0
          /\ fLearnableParams[k].value # initZone[k]
          /\ csvLastRow[2 * k + 1] = fLearnableParams[k].gradient

\* the states before the registry exists
PreRun == {"main", "exit", "start"}
Terminal == {"converged", "exhausted"}
\* a frame has been processed and its block is still the one in out
HasLast == processed > 0 /\ ~(pc = "frame" /\ frame = 0)
\* the index of that frame in out
LastFrame == IF pc = "frame" THEN frame - 1 ELSE frame
\* length of the run of frames with loss <= epsilon that ends the frames processed
QuietRun == processed - lastHighAt
\* a bound on the steps the loop can still take
Measure ==
    2 * (Budget - processed)
      + (IF pc = "start" THEN 3 ELSE IF pc = "descend" THEN 2
         ELSE IF pc = "render" THEN 1 ELSE 0)

\* C11: the loop terminates: every step lowers a non-negative measure, no step
\* leaves a terminal state; it is CONVERGED only with the count above
\* Patience, EXHAUSTED only with all iterations * blockSize frames processed
\* and the count never above Patience, RUNNING otherwise; at most
\* kNumIterations blocks are rendered.
C11_Terminates ==
    /\ [](/\ pc \in {"start", "descend", "render", "frame"} \cup Terminal
          /\ Measure >= 0
          /\ rendered <= kNumIterations
          /\ pc = "converged" => lowLossCount > Patience
          /\ pc = "exhausted" =>
                /\ processed = Budget
                /\ rendered = kNumIterations
                /\ lowLossCount <= Patience
          /\ pc \in {"render", "frame"} =>
                /\ lowLossCount <= Patience
                /\ processed < Budget)
    /\ [][pc \notin Terminal /\ Measure' < Measure]_vars

C11_Witness ==
    /\ pc = "exhausted" /\ kNumIterations > 2 /\ processed = Budget
    /\ ~allLow /\ lowLossCount > 0

IndexOf(address) == CHOOSE p \in 1..Len(UIPaths) : UIPaths[p] = address

\* C13: after initialise the registry holds exactly the parameters of the
\* adjustable transform, none of the input or ground-truth transforms, so N is
\* the number of derivative channels; and the registered addresses and their
\* order stay as initialise left them.
C13_RegistryIsAdjustable ==
    pc \notin PreRun =>
       /\ \A k \in 1..NumParams :
             uiOwner[IndexOf(fLearnableParams[k].address)] = "adjustable"
       /\ NumParams = Cardinality(Adjustable(uiOwner))
       /\ NumParams = Len(dspDeriv)
       /\ \A k \in 1..NumParams : fLearnableParams[k].address = UIPaths[k]

\* C14: with --help main prints the usage and exits 0; otherwise with one of
\* --input, --gt, --diff missing it prints the request and exits 1; in both
\* cases nothing is compiled, rendered or written.  initialise and then
\* doGradientDescent run only with all three present and no --help.
C14_Startup ==
    /\ pc = "exit" =>
          /\ optHelp => (exitCode = 0 /\ printed = "help")
          /\ ~optHelp => /\ exitCode = 1 /\ printed = "missing"
                         /\ ~(optInput /\ optGt /\ optDiff)
          /\ fLearnableParams = <<>> /\ csvHeader = <<>> /\ csvRows = 0
          /\ rendered = 0 /\ processed = 0 /\ out = <<>>
    /\ pc \notin {"main", "exit"} =>
          /\ ~optHelp /\ optInput /\ optGt /\ optDiff
          /\ exitCode = -1 /\ printed = "none"
    /\ pc \in {"main", "start"} =>
          /\ csvHeader = <<>> /\ rendered = 0 /\ processed = 0
    /\ pc \notin PreRun => csvHeader # <<>>
    /\ pc = "descend" => rendered = 0 /\ processed = 0

C14_Witness ==
    /\ pc = "exit" /\ ~optHelp /\ optInput /\ optGt /\ ~optDiff
    /\ exitCode = 1

\* C15: the loss of a processed frame is |delta| under L1 and delta * delta
\* under L2, delta being channel 1 minus channel 0 of the frame; it is never
\* negative; while only quiet frames were processed the registry and the
\* zones are as initialise left them.
C15_Loss ==
    /\ HasLast =>
          LET delta == Output(out, 1, LastFrame) - Output(out, 0, LastFrame)
          IN  /\ kLossFunction = "L1_NORM" => fLoss = (IF delta < 0 THEN -delta ELSE delta)
              /\ kLossFunction = "L2_NORM" => fLoss = delta * delta
    /\ fLoss >= 0
    /\ (allLow /\ pc \notin PreRun) =>
          /\ uiZone = initZone
          /\ \A k \in 1..NumParams :
                /\ fLearnableParams[k].value = initZone[k]
                /\ fLearnableParams[k].gradient = 0

C15_Witness ==
    /\ HasLast /\ kLossFunction = "L1_NORM"
    /\ Delta(out, LastFrame) < 0
    /\ fLoss = 5

\* C16: after every processed frame lowLossCount is the length of the run of
\* frames with loss <= epsilon that ends the frames processed so far, over
\* all blocks; a render leaves it alone.
C16_StableCount ==
    pc \notin PreRun =>
       /\ lowLossCount = QuietRun
       /\ lowLossCount <= processed
       /\ (processed > 0 /\ fLoss > kEpsilon) => lowLossCount = 0
       /\ (processed > 0 /\ fLoss <= kEpsilon) => lowLossCount > 0

C16_Witness ==
    /\ pc = "frame" /\ frame = 0 /\ fBufferSize = 2
    /\ lastHighAt > 0
    /\ lowLossCount > fBufferSize

\* C17: once initialise has run, at every render and at termination the zone
\* of every registered address holds the registry's value; computeGradient
\* frames push every registered address.
C17_ZonesAgree ==
    pc \notin PreRun =>
       /\ Len(uiZone) = NumParams
       /\ \A k \in 1..NumParams :
             uiZone[IndexOf(fLearnableParams[k].address)] = fLearnableParams[k].value
       /\ (pc = "frame" /\ frame = 0) =>
             \A k \in 1..NumParams : renderZone[k] = fLearnableParams[k].value
       /\ extracted => pushed = 1..NumParams
       /\ pc = "descend" => uiZone = initZone

C17_Witness ==
    /\ extracted /\ kAlpha = 1 /\ NumParams = 2 /\ pc \in Terminal
    /\ uiZone[1] # initZone[1]
    /\ uiZone[1] = fLearnableParams[1].value

\* C18: the row of a frame whose loss exceeds epsilon carries the loss of the
\* frame's delta, the gradients extracted from that delta and the values
\* after this frame's update of the values the frame found; the row is
\* written before the return is taken.
C18_FrameOrder ==
    [][(pc = "frame" /\ processed' = processed + 1) =>
         LET delta == Output(out, 1, frame) - Output(out, 0, frame)
             loss == IF kLossFunction = "L1_NORM"
                     THEN (IF delta < 0 THEN -delta ELSE delta)
                     ELSE delta * delta
             grad(k) == IF kLossFunction = "L1_NORM"
                        THEN (IF delta > 0 THEN Output(out, 1 + k, frame)
                              ELSE IF delta < 0 THEN -Output(out, 1 + k, frame)
                              ELSE 0)
                        ELSE 2 * Output(out, 1 + k, frame) * delta
         IN  /\ fLoss' = loss
             /\ csvRows' = csvRows + 1
             /\ csvLastRow'[1] = i /\ csvLastRow'[2] = loss
             /\ loss > kEpsilon =>
                   \A k \in 1..NumParams :
                      /\ csvLastRow'[2 * k + 1] = grad(k)
                      /\ csvLastRow'[2 * k + 2] =
                            fLearnableParams[k].value - kAlpha * grad(k)
                      /\ uiZone'[k] = csvLastRow'[2 * k + 2]
             /\ pc' = "converged" <=> (loss <= kEpsilon /\ lowLossCount >= Patience)]_vars

C18_Witness ==
    /\ extracted /\ kAlpha = 1 /\ processed > 1 /\ NumParams = 2
    /\ csvLastRow[2] = fLoss /\ fLoss > kEpsilon
    /\ csvLastRow[3] # 0
    /\ csvLastRow[4] = fLearnableParams[1].value
    /\ csvLastRow[4] # initZone[1]

\* C19: the iteration field of a row is the 1-based number of the rendered
\* block holding the frame: it lies in 1..kNumIterations, and the n-th row
\* carries (n - 1) \div blockSize + 1, so the field never decreases, steps by at
\* most 1 and repeats at most blockSize times.
C19_IterationField ==
    csvRows > 0 =>
       /\ csvLastRow[1] = ((csvRows - 1) \div fBufferSize) + 1
       /\ HasLast => csvLastRow[1] = rendered
       /\ csvLastRow[1] >= 1 /\ csvLastRow[1] <= kNumIterations

C19_Witness ==
    /\ csvRows = 4 /\ fBufferSize = 2 /\ csvLastRow[1] = 2
    /\ kNumIterations > 2

====
